---- MODULE Spec2Model ----
(***************************************************************************)
(* zlaunch: a Zellij plugin that runs a list of shell commands one after   *)
(* the other in command panes (src/src/main.rs).  The plugin is a single   *)
(* `State` value mutated by `update`, once per host event.  The model has  *)
(* one action per event / key branch of `update`; every handler is a pure  *)
(* operator from a state record to a state record, whose field `fx`        *)
(* collects the host requests the handler issues, in order.                *)
(*                                                                         *)
(* Rust indices are kept 0-based; Option<T> is <<>> (None) or <<x>>.       *)
(* Strings are sequences of one-character strings.  Instant::now() is the  *)
(* single value Instant: only the presence of a timestamp is observable    *)
(* in the sequencing logic.                                                *)
(***************************************************************************)
EXTENDS Integers, Sequences, FiniteSets, TLC

(* ------------------------------ bounds --------------------------------- *)
\* longest command list the configuration supplies
MaxCommands == 2
\* cap on current_run_index (the run epoch)
MaxRunIndex == 2
\* cap on the number of panes (command and edit panes) the host ever opens
MaxPanes == 3
\* longest content of the edited artifact, in characters
MaxArtifactLen == 3
\* longest command list of the undisturbed run (scenario A)
ScenarioCommands == 6

(* ------------------------------ Option --------------------------------- *)
None == <<>>
Some(x) == <<x>>
IsSome(o) == o # None
Unwrap(o) == o[1]

Instant == "now"

(* ------------------------------ strings -------------------------------- *)
Digits == <<"0", "1", "2", "3", "4", "5", "6", "7", "8", "9">>

RECURSIVE to_string(_)
\* usize::to_string: decimal digits, most significant first
to_string(n) ==
    IF n < 10 THEN <<Digits[n + 1]>>
    ELSE Append(to_string(n \div 10), Digits[(n % 10) + 1])

DigitValue(ch) == (CHOOSE d \in 1..10 : Digits[d] = ch) - 1

IsDigit(ch) == \E d \in 1..10 : Digits[d] = ch

RECURSIVE DecimalValue(_)
DecimalValue(s) ==
    IF Len(s) = 0 THEN 0
    ELSE 10 * DecimalValue(SubSeq(s, 1, Len(s) - 1)) + DigitValue(s[Len(s)])

\* str::parse::<usize>().ok(): Some(n) for a non-empty digit string
parse_usize(s) ==
    IF Len(s) > 0 /\ \A i \in 1..Len(s) : IsDigit(s[i])
    THEN Some(DecimalValue(s))
    ELSE None

Newline == "\n"
IsWhitespace(ch) == ch \in {Newline, " "}

RECURSIVE trim_start(_)
trim_start(s) ==
    IF Len(s) > 0 /\ IsWhitespace(s[1]) THEN trim_start(Tail(s)) ELSE s

RECURSIVE trim_end(_)
trim_end(s) ==
    IF Len(s) > 0 /\ IsWhitespace(s[Len(s)])
    THEN trim_end(SubSeq(s, 1, Len(s) - 1))
    ELSE s

\* str::trim
trim(s) == trim_end(trim_start(s))

RECURSIVE split_lines(_, _)
\* str::split('\n'): `cur` is the piece being read; always yields at least
\* one piece, the empty string for the empty input
split_lines(s, cur) ==
    IF Len(s) = 0 THEN <<cur>>
    ELSE IF s[1] = Newline THEN <<cur>> \o split_lines(Tail(s), <<>>)
    ELSE split_lines(Tail(s), Append(cur, s[1]))

(* ------------------------------ Command -------------------------------- *)
\* Command::new
NewCommand(command_line) ==
    [ command_line |-> command_line,
      start_time |-> None,
      end_time |-> None,
      pane_id |-> None,
      exit_status |-> None,
      exited |-> FALSE,
      pane_closed_by_user |-> FALSE ]

\* reset that keeps the exit status
ResetKeepsExitStatus(command) ==
    [NewCommand(command.command_line) EXCEPT !.exit_status = command.exit_status]

\* Command::reset
reset(command) == NewCommand(command.command_line)

(* --------------------------- plugin state ------------------------------ *)
VARIABLES
    current_run_index,           \* State.current_run_index: the run epoch
    commands_to_run,             \* State.commands_to_run: Seq of Command
    active_edit_pane_ids,        \* State.active_edit_pane_ids: Seq of pane ids
    running_command_index,       \* State.running_command_index: Option<usize>
    selected_index,              \* State.selected_index: Option<usize>
    paused,                      \* State.paused
    stop_on_failure,             \* State.stop_on_failure
    panes_to_run_on_completion,  \* State.panes_to_run_on_completion:
                                 \* title |-> Option<PaneId>
    (* the session host and the file system *)
    panes,                \* host: pane id |-> [kind, context, phase]
    artifact_exists,      \* whether /host/.editing-commands exists
    permission,           \* "requested", "granted" or "denied"
    closed                \* close_self() was requested: the plugin is unloaded

plugin_vars ==
    << current_run_index, commands_to_run, active_edit_pane_ids,
       running_command_index, selected_index, paused, stop_on_failure,
       panes_to_run_on_completion >>

vars ==
    << current_run_index, commands_to_run, active_edit_pane_ids,
       running_command_index, selected_index, paused, stop_on_failure,
       panes_to_run_on_completion, panes, artifact_exists, permission, closed >>

\* the State struct as a record; fx are the requests issued so far by the
\* handler being run
St ==
    [ current_run_index |-> current_run_index,
      commands_to_run |-> commands_to_run,
      active_edit_pane_ids |-> active_edit_pane_ids,
      running_command_index |-> running_command_index,
      selected_index |-> selected_index,
      paused |-> paused,
      stop_on_failure |-> stop_on_failure,
      panes_to_run_on_completion |-> panes_to_run_on_completion,
      fx |-> <<>> ]

\* Vec::get with a 0-based index
Get(v, i) == IF i >= 0 /\ i < Len(v) THEN Some(v[i + 1]) ELSE None

Issue(s, request) == [s EXCEPT !.fx = Append(@, request)]

(* --------------------------- host requests ----------------------------- *)
CommandContext(command_index, run_index) ==
    [ command_index |-> Some(to_string(command_index)),
      current_run_index |-> Some(to_string(run_index)),
      edit_pane_marker |-> None ]

EditContext ==
    [ command_index |-> None,
      current_run_index |-> None,
      edit_pane_marker |-> Some(<<>>) ]

\* State::run_command: open_command_pane_floating(shell -ic command_line, context)
run_command(s, command, context) ==
    Issue(s, <<"open_command_pane_floating", context, command.command_line>>)

(* ----------------------------- Sequencer ------------------------------- *)
\* current_command_failed that never reports a failure
CurrentCommandNeverFailed(s) == FALSE

\* State::current_command_failed
current_command_failed(s) ==
    IF IsSome(s.running_command_index)
          /\ IsSome(Get(s.commands_to_run, Unwrap(s.running_command_index)))
    THEN LET c == Unwrap(Get(s.commands_to_run, Unwrap(s.running_command_index)))
         IN  ~(c.exited /\ c.exit_status = Some(0))
    ELSE FALSE

\* State::all_commands_exited
all_commands_exited(s) ==
    \A i \in 1..Len(s.commands_to_run) :
        s.commands_to_run[i].exited \/ s.commands_to_run[i].pane_closed_by_user

\* all_commands_exited_successfully that takes any exit for a success
AllExitedTakenForSuccess(s) ==
    \A i \in 1..Len(s.commands_to_run) : s.commands_to_run[i].exited

\* State::all_commands_exited_successfully
all_commands_exited_successfully(s) ==
    \A i \in 1..Len(s.commands_to_run) :
        s.commands_to_run[i].exit_status = Some(0)

\* State::successful_command_count
successful_command_count(s) ==
    Cardinality({i \in 1..Len(s.commands_to_run) :
                    s.commands_to_run[i].exit_status = Some(0)})

\* State::failed_command_count
failed_command_count(s) ==
    Cardinality({i \in 1..Len(s.commands_to_run) :
                    /\ s.commands_to_run[i].exited
                    /\ s.commands_to_run[i].exit_status # Some(0)})

\* State::pending_command_count
pending_command_count(s) ==
    Cardinality({i \in 1..Len(s.commands_to_run) :
                    ~s.commands_to_run[i].exited})

\* the request show_failed_commands issues for one command, if any
ShowOrHide(command) ==
    IF IsSome(command.pane_id)
    THEN IF IsSome(command.exit_status) /\ Unwrap(command.exit_status) # 0
         THEN << <<"show_pane_with_id", Unwrap(command.pane_id)>> >>
         ELSE << <<"hide_pane_with_id", Unwrap(command.pane_id)>> >>
    ELSE <<>>

RECURSIVE ShowOrHideFrom(_, _)
ShowOrHideFrom(commands, i) ==
    IF i > Len(commands) THEN <<>>
    ELSE ShowOrHide(commands[i]) \o ShowOrHideFrom(commands, i + 1)

\* State::show_failed_commands
show_failed_commands(s) ==
    [s EXCEPT !.fx = @ \o ShowOrHideFrom(s.commands_to_run, 1)]

\* the close request for one command's pane, if it has one
ClosePane(command) ==
    IF IsSome(command.pane_id)
    THEN << <<"close_terminal_pane", Unwrap(command.pane_id)>> >>
    ELSE <<>>

RECURSIVE ClosePanesFrom(_, _)
ClosePanesFrom(commands, i) ==
    IF i > Len(commands) THEN <<>>
    ELSE ClosePane(commands[i]) \o ClosePanesFrom(commands, i + 1)

RECURSIVE RerunPanes(_, _)
\* the first loop of handle_run_end: a rerun request for every completion
\* title whose pane was seen, in some order of the map's keys
RerunPanes(by_title, titles) ==
    IF titles = {} THEN <<>>
    ELSE LET title == CHOOSE x \in titles : TRUE
             rest == RerunPanes(by_title, titles \ {title})
         IN  IF IsSome(by_title[title])
             THEN << <<"rerun_command_pane", Unwrap(by_title[title])>> >> \o rest
             ELSE rest

\* State::handle_run_end
handle_run_end(s) ==
    [s EXCEPT !.fx = @ \o RerunPanes(s.panes_to_run_on_completion,
                                     DOMAIN s.panes_to_run_on_completion)
                       \o ClosePanesFrom(s.commands_to_run, 1)
                       \o << <<"close_self">> >>]

\* State::run_next_command
run_next_command(s) ==
    IF s.paused THEN s
    ELSE IF current_command_failed(s) /\ s.stop_on_failure
    THEN show_failed_commands(s)
    ELSE LET next_index == IF IsSome(s.running_command_index)
                           THEN Unwrap(s.running_command_index) + 1
                           ELSE 0
         IN  IF IsSome(Get(s.commands_to_run, next_index))
             THEN [ run_command(s, Unwrap(Get(s.commands_to_run, next_index)),
                                CommandContext(next_index, s.current_run_index))
                    EXCEPT !.running_command_index = Some(next_index) ]
             ELSE LET s1 == [s EXCEPT !.running_command_index = None]
                  IN  IF all_commands_exited_successfully(s1)
                      THEN handle_run_end(s1)
                      ELSE show_failed_commands(s1)

(* ------------------------ lifecycle event router ------------------------ *)
\* SameRun without the comparison: every event counts as of this run
SameRunAlways(event_run_index, s) == TRUE

\* the epoch test of both lifecycle handlers: the event's current_run_index
\* against State.current_run_index
SameRun(event_run_index, s) == event_run_index = s.current_run_index

\* State::handle_command_pane_opened (CommandPaneOpened and CommandPaneReRun)
handle_command_pane_opened(s, terminal_pane_id, context) ==
    LET command_index ==
            IF IsSome(context.command_index)
            THEN parse_usize(Unwrap(context.command_index)) ELSE None
        run_index ==
            IF IsSome(context.current_run_index)
            THEN parse_usize(Unwrap(context.current_run_index)) ELSE None
    IN  IF IsSome(command_index) /\ IsSome(run_index)
        THEN IF SameRun(Unwrap(run_index), s)
             THEN IF IsSome(Get(s.commands_to_run, Unwrap(command_index)))
                  THEN [s EXCEPT
                          !.commands_to_run[Unwrap(command_index) + 1].pane_id =
                              Some(terminal_pane_id),
                          !.commands_to_run[Unwrap(command_index) + 1].start_time =
                              Some(Instant),
                          !.commands_to_run[Unwrap(command_index) + 1].end_time =
                              None]
                  ELSE s
             ELSE s
        ELSE s

\* AfterExit that advances the Sequencer on the exit of any command
AfterExitAlwaysAdvances(s, command_index) == run_next_command(s)

\* AfterExit that never goes on to the next command
AfterExitIdle(s, command_index) == s

\* what handle_command_pane_exited does after it recorded the exit
AfterExit(s, command_index) ==
    IF s.running_command_index = Some(command_index)
    THEN run_next_command(s)
    ELSE IF all_commands_exited_successfully(s)
    THEN handle_run_end(s)
    ELSE s

\* State::handle_command_pane_exited
handle_command_pane_exited(s, exit_code, context) ==
    LET command_index ==
            IF IsSome(context.command_index)
            THEN parse_usize(Unwrap(context.command_index)) ELSE None
        run_index ==
            IF IsSome(context.current_run_index)
            THEN parse_usize(Unwrap(context.current_run_index)) ELSE None
    IN  IF IsSome(command_index) /\ IsSome(run_index)
        THEN IF SameRun(Unwrap(run_index), s)
             THEN IF IsSome(Get(s.commands_to_run, Unwrap(command_index)))
                  THEN AfterExit(
                         [s EXCEPT
                            !.commands_to_run[Unwrap(command_index) + 1].exit_status =
                                exit_code,
                            !.commands_to_run[Unwrap(command_index) + 1].exited =
                                TRUE,
                            !.commands_to_run[Unwrap(command_index) + 1].end_time =
                                Some(Instant)],
                         Unwrap(command_index))
                  ELSE s
             ELSE s
        ELSE s

(* --------------------------- live edit --------------------------------- *)
\* State::kill_all_commands
kill_all_commands(s) ==
    [s EXCEPT !.fx = @ \o ClosePanesFrom(s.commands_to_run, 1)]

\* new_commands.trim().split('\n').map(Command::new).collect()
ParseCommands(new_commands) ==
    LET lines == split_lines(trim(new_commands), <<>>)
    IN  [i \in 1..Len(lines) |-> NewCommand(lines[i])]

\* fs::read_to_string results
Ok(contents) == [ok |-> TRUE, value |-> contents]
Err == [ok |-> FALSE, value |-> <<>>]

\* handle_editor_closed that takes a failed read for an empty artifact
EditorClosedReadUnchecked(s, read) ==
    LET s1 == kill_all_commands(s)
        s2 == [s1 EXCEPT !.commands_to_run = ParseCommands(read.value),
                         !.running_command_index = None,
                         !.current_run_index = @ + 1]
    IN  Issue(run_next_command(s2), <<"remove_file">>)

\* handle_editor_closed that does not begin a new run epoch
EditorClosedInSameRun(s, read) ==
    IF read.ok
    THEN LET s1 == kill_all_commands(s)
             s2 == [s1 EXCEPT !.commands_to_run = ParseCommands(read.value),
                              !.running_command_index = None]
         IN  Issue(run_next_command(s2), <<"remove_file">>)
    ELSE s

\* State::handle_editor_closed; read is the result of reading the artifact
handle_editor_closed(s, read) ==
    IF read.ok
    THEN LET s1 == kill_all_commands(s)
             s2 == [s1 EXCEPT !.commands_to_run = ParseCommands(read.value),
                              !.running_command_index = None,
                              !.current_run_index = @ + 1]
         IN  Issue(run_next_command(s2), <<"remove_file">>)
    ELSE s

RECURSIVE JoinLines(_, _)
\* Vec<String>::join("\n") of the command lines from position i on
JoinLines(commands, i) ==
    IF i > Len(commands) THEN <<>>
    ELSE IF i = Len(commands) THEN commands[i].command_line
    ELSE commands[i].command_line \o <<Newline>> \o JoinLines(commands, i + 1)

\* State::open_editor; write_ok is the result of creating and writing the file
open_editor(s, write_ok) ==
    IF write_ok
    THEN Issue(Issue(s, <<"write_file", JoinLines(s.commands_to_run, 1)>>),
               <<"open_file_floating", EditContext, <<>> >>)
    ELSE s

\* retain(|p| *p != pane_id)
Retain(ids, pane_id) == SelectSeq(ids, LAMBDA p : p # pane_id)

Contains(ids, pane_id) == \E i \in 1..Len(ids) : ids[i] = pane_id

\* update, EditPaneOpened branch
edit_pane_opened(s, terminal_pane_id, context) ==
    IF IsSome(context.edit_pane_marker)
    THEN [s EXCEPT !.active_edit_pane_ids = Append(@, terminal_pane_id)]
    ELSE s

\* update, EditPaneExited branch
edit_pane_exited(s, terminal_pane_id, context, read) ==
    IF IsSome(context.edit_pane_marker)
    THEN handle_editor_closed(
            [s EXCEPT !.active_edit_pane_ids = Retain(@, terminal_pane_id)], read)
    ELSE s

\* position of the first command bound to pane_id, 0 if there is none
FirstBound(commands, pane_id) ==
    IF \E i \in 1..Len(commands) : commands[i].pane_id = Some(pane_id)
    THEN CHOOSE i \in 1..Len(commands) :
            /\ commands[i].pane_id = Some(pane_id)
            /\ \A j \in 1..(i - 1) : commands[j].pane_id # Some(pane_id)
    ELSE 0

\* handle_pane_closed that keeps the exit status of the record it resets
ClosedKeepsExitStatus(s, pane_id, read) ==
    LET i == FirstBound(s.commands_to_run, pane_id)
        s1 == IF i > 0
              THEN [s EXCEPT !.commands_to_run[i] =
                       [reset(@) EXCEPT !.pane_closed_by_user = TRUE,
                                        !.exit_status =
                                            s.commands_to_run[i].exit_status]]
              ELSE s
    IN  IF Contains(s1.active_edit_pane_ids, pane_id)
        THEN handle_editor_closed(
                [s1 EXCEPT !.active_edit_pane_ids = Retain(@, pane_id)], read)
        ELSE s1

\* State::handle_pane_closed
handle_pane_closed(s, pane_id, read) ==
    LET i == FirstBound(s.commands_to_run, pane_id)
        s1 == IF i > 0
              THEN [s EXCEPT !.commands_to_run[i] =
                       [reset(@) EXCEPT !.pane_closed_by_user = TRUE]]
              ELSE s
    IN  IF Contains(s1.active_edit_pane_ids, pane_id)
        THEN handle_editor_closed(
                [s1 EXCEPT !.active_edit_pane_ids = Retain(@, pane_id)], read)
        ELSE s1

(* ---------------------- selection and manual controls ------------------ *)
\* usize::saturating_sub(1)
saturating_sub_1(n) == IF n = 0 THEN 0 ELSE n - 1

\* State::move_selection_down
move_selection_down(s) ==
    LET max_selected_index == saturating_sub_1(Len(s.commands_to_run))
    IN  IF s.selected_index = None /\ Len(s.commands_to_run) # 0
        THEN [s EXCEPT !.selected_index = Some(0)]
        ELSE IF IsSome(s.selected_index)
                  /\ Unwrap(s.selected_index) < max_selected_index
        THEN [s EXCEPT !.selected_index = Some(Unwrap(@) + 1)]
        ELSE [s EXCEPT !.selected_index = None]

\* move_selection_up that wraps from the first command to the last
UpWrapsAround(s) ==
    LET max_selected_index == saturating_sub_1(Len(s.commands_to_run))
    IN  IF IsSome(s.selected_index) /\ Unwrap(s.selected_index) > 0
        THEN [s EXCEPT !.selected_index = Some(Unwrap(@) - 1)]
        ELSE [s EXCEPT !.selected_index = Some(max_selected_index)]

\* State::move_selection_up
move_selection_up(s) ==
    LET max_selected_index == saturating_sub_1(Len(s.commands_to_run))
    IN  IF s.selected_index = None /\ Len(s.commands_to_run) # 0
        THEN [s EXCEPT !.selected_index = Some(max_selected_index)]
        ELSE IF IsSome(s.selected_index) /\ Unwrap(s.selected_index) > 0
        THEN [s EXCEPT !.selected_index = Some(Unwrap(@) - 1)]
        ELSE [s EXCEPT !.selected_index = None]

\* State::get_focused_command: the 0-based index of the selected command
get_focused_command(s) ==
    IF IsSome(s.selected_index)
          /\ IsSome(Get(s.commands_to_run, Unwrap(s.selected_index)))
    THEN s.selected_index
    ELSE None

\* focus_selected_terminal that makes the rerun command the running one
FocusMovesSequencer(s) ==
    LET focused == get_focused_command(s)
    IN  IF IsSome(focused)
        THEN LET command == s.commands_to_run[Unwrap(focused) + 1]
             IN  IF IsSome(command.pane_id)
                 THEN Issue(s, <<"focus_terminal_pane", Unwrap(command.pane_id)>>)
                 ELSE run_command(
                        [s EXCEPT !.commands_to_run[Unwrap(focused) + 1] = reset(@),
                                  !.running_command_index = focused],
                        reset(command),
                        CommandContext(Unwrap(s.selected_index), s.current_run_index))
        ELSE s

\* State::focus_selected_terminal
focus_selected_terminal(s) ==
    LET focused == get_focused_command(s)
    IN  IF IsSome(focused)
        THEN LET command == s.commands_to_run[Unwrap(focused) + 1]
             IN  IF IsSome(command.pane_id)
                 THEN Issue(s, <<"focus_terminal_pane", Unwrap(command.pane_id)>>)
                 ELSE run_command(
                        [s EXCEPT !.commands_to_run[Unwrap(focused) + 1] = reset(@)],
                        reset(command),
                        CommandContext(Unwrap(s.selected_index), s.current_run_index))
        ELSE s

\* restart_run that leaves the records as they are
RestartKeepsRecords(s) ==
    LET s1 == [s EXCEPT
                 !.running_command_index = None,
                 !.fx = @ \o ClosePanesFrom(s.commands_to_run, 1),
                 !.current_run_index = @ + 1]
    IN  run_next_command(s1)

\* State::restart_run
restart_run(s) ==
    LET s1 == [s EXCEPT
                 !.running_command_index = None,
                 !.fx = @ \o ClosePanesFrom(s.commands_to_run, 1),
                 !.commands_to_run =
                     [i \in 1..Len(@) |-> NewCommand(@[i].command_line)],
                 !.current_run_index = @ + 1]
    IN  run_next_command(s1)

\* the Space branch without the call of run_next_command
TogglePausedOnly(s) == [s EXCEPT !.paused = ~@]

\* update, Key(' ') branch
toggle_paused(s) ==
    LET s1 == [s EXCEPT !.paused = ~@]
    IN  IF ~s1.paused /\ ~all_commands_exited(s1) THEN run_next_command(s1) ELSE s1

\* the 'f' branch without the call of run_next_command
ToggleStopOnFailureOnly(s) == [s EXCEPT !.stop_on_failure = ~@]

\* update, Key('f') branch
toggle_stop_on_failure(s) ==
    LET s1 == [s EXCEPT !.stop_on_failure = ~@]
    IN  IF ~s1.stop_on_failure /\ ~all_commands_exited(s1)
        THEN run_next_command(s1) ELSE s1

\* the PermissionRequestResult branch with the epoch moved on only after
\* run_next_command
PermissionStartsBeforeEpoch(s, granted) ==
    IF granted /\ s.running_command_index = None
    THEN [run_next_command(s) EXCEPT !.current_run_index = @ + 1]
    ELSE s

\* update, PermissionRequestResult branch
permission_request_result(s, granted) ==
    IF granted /\ s.running_command_index = None
    THEN run_next_command([s EXCEPT !.current_run_index = @ + 1])
    ELSE s

\* State::log_pane_ids_as_needed; manifest is the set of the host's panes,
\* each a title and a pane id
log_pane_ids_as_needed(s, manifest) ==
    [s EXCEPT !.panes_to_run_on_completion =
        [title \in DOMAIN @ |->
            IF \E pane \in manifest : pane.title = title
            THEN Some((CHOOSE pane \in manifest : pane.title = title).id)
            ELSE @[title]]]

(* ------------------------------ the host -------------------------------- *)
\* The host's reaction to the requests of one handler: panes asked to close
\* are closed, every open request creates a pane whose events echo the
\* request's context, the artifact is written or removed.  A pane that is
\* gone sends no further event.
IsRequest(request, name) == request[1] = name

Requests(fx, name) == SelectSeq(fx, LAMBDA r : IsRequest(r, name))

OpenRequests(fx) ==
    SelectSeq(fx, LAMBDA r : IsRequest(r, "open_command_pane_floating")
                                \/ IsRequest(r, "open_file_floating"))

NewPane(request) ==
    [ kind |-> IF IsRequest(request, "open_file_floating") THEN "edit" ELSE "command",
      context |-> request[2],
      phase |-> "requested" ]

\* what is left of a pane that was closed
Gone(pane) == [kind |-> pane.kind, context |-> EditContext, phase |-> "closed"]

HostPanes(old, fx) ==
    LET kept == [p \in 1..Len(old) |->
                    IF \E i \in 1..Len(fx) :
                          IsRequest(fx[i], "close_terminal_pane") /\ fx[i][2] = p
                    THEN Gone(old[p])
                    ELSE old[p]]
        opened == OpenRequests(fx)
    IN  kept \o [i \in 1..Len(opened) |-> NewPane(opened[i])]

RECURSIVE ArtifactAfter(_, _)
ArtifactAfter(exists, fx) ==
    IF Len(fx) = 0 THEN exists
    ELSE IF IsRequest(fx[1], "write_file") THEN ArtifactAfter(TRUE, Tail(fx))
    ELSE IF IsRequest(fx[1], "remove_file") THEN ArtifactAfter(FALSE, Tail(fx))
    ELSE ArtifactAfter(exists, Tail(fx))

\* one call of update: the handler took St to s; host_panes are the host's
\* panes once the event was sent.  Without the permissions the host serves no
\* pane request.
HandledWithin(s, host_panes, perm, pane_limit) ==
    /\ s.current_run_index <= MaxRunIndex
    /\ Len(HostPanes(host_panes, s.fx)) <= pane_limit
    /\ current_run_index' = s.current_run_index
    /\ commands_to_run' = s.commands_to_run
    /\ active_edit_pane_ids' = s.active_edit_pane_ids
    /\ running_command_index' = s.running_command_index
    /\ selected_index' = s.selected_index
    /\ paused' = s.paused
    /\ stop_on_failure' = s.stop_on_failure
    /\ panes_to_run_on_completion' = s.panes_to_run_on_completion
    /\ panes' = IF perm = "granted" THEN HostPanes(host_panes, s.fx) ELSE host_panes
    /\ artifact_exists' = ArtifactAfter(artifact_exists, s.fx)
    /\ closed' = (Len(Requests(s.fx, "close_self")) > 0)
    /\ permission' = perm

Handled(s, host_panes, perm) == HandledWithin(s, host_panes, perm, MaxPanes)

SetPhase(p, phase) == [panes EXCEPT ![p].phase = phase]

Remove(p) == [panes EXCEPT ![p] = Gone(@)]

\* the lines of the configured command list: 1, 2, ... letters long
ConfiguredLine(i) == [j \in 1..i |-> "x"]

ConfiguredCommands(n) == [i \in 1..n |-> NewCommand(ConfiguredLine(i))]

ExitCodes == {None, Some(0), Some(1)}

ArtifactAlphabet == {"a", Newline}

Artifacts ==
    UNION {[1..n -> ArtifactAlphabet] : n \in 0..MaxArtifactLen}

\* what reading the artifact can return: its content, whatever the user
\* left in it, when it exists; an error in any case
ReadResults ==
    {Err} \cup (IF artifact_exists THEN {Ok(a) : a \in Artifacts} ELSE {})

\* the artifact is read when pane p closes only if p is an editor pane the
\* plugin tracks
ReadsOnClose(p) ==
    IF Contains(active_edit_pane_ids, p) THEN ReadResults ELSE {Err}

\* the titles under panes_to_run_on_completion in the configuration: the
\* modelled configuration names none
CompletionTitles == {}

\* what a PaneUpdate can report: the titles and ids of the host's panes
Manifests == { {}, {[title |-> "build", id |-> 0]} }

\* the correlation a command pane's events carry
PaneIndex(p) == Unwrap(parse_usize(Unwrap(panes[p].context.command_index)))

PaneRun(p) == Unwrap(parse_usize(Unwrap(panes[p].context.current_run_index)))

CommandPanes(phases) ==
    {p \in 1..Len(panes) : panes[p].kind = "command" /\ panes[p].phase \in phases}

(* ------------------------------ actions --------------------------------- *)
\* State::default() followed by load()
Init ==
    /\ current_run_index = 0
    /\ \E n \in 0..MaxCommands : commands_to_run = ConfiguredCommands(n)
    /\ active_edit_pane_ids = <<>>
    /\ running_command_index = None
    /\ selected_index = None
    /\ paused = FALSE
    /\ stop_on_failure \in BOOLEAN
    /\ panes_to_run_on_completion = [title \in CompletionTitles |-> None]
    /\ panes = <<>>
    /\ artifact_exists = FALSE
    /\ permission = "requested"
    /\ closed = FALSE

\* the plugin is loaded and the user has answered the permission prompt,
\* which takes the keys until then
Serving == ~closed /\ permission # "requested"

PermissionResult(granted) ==
    /\ ~closed /\ permission = "requested"
    /\ Handled(permission_request_result(St, granted), panes,
               IF granted THEN "granted" ELSE "denied")

PermissionRequestResult == \E granted \in BOOLEAN : PermissionResult(granted)

PaneOpened(p) ==
    /\ Serving
    /\ p \in 1..Len(panes)
    /\ panes[p].kind = "command" /\ panes[p].phase = "requested"
    /\ Handled(handle_command_pane_opened(St, p, panes[p].context),
               SetPhase(p, "running"), permission)

CommandPaneOpened == \E p \in 1..Len(panes) : PaneOpened(p)

PaneExited(p, exit_code) ==
    /\ Serving
    /\ p \in 1..Len(panes)
    /\ panes[p].kind = "command" /\ panes[p].phase = "running"
    /\ Handled(handle_command_pane_exited(St, exit_code, panes[p].context),
               SetPhase(p, "exited"), permission)

CommandPaneExited ==
    \E p \in 1..Len(panes), exit_code \in ExitCodes : PaneExited(p, exit_code)

\* the user runs the command of an exited pane again, in that pane
PaneReRun(p) ==
    /\ Serving
    /\ p \in 1..Len(panes)
    /\ panes[p].kind = "command" /\ panes[p].phase = "exited"
    /\ Handled(handle_command_pane_opened(St, p, panes[p].context),
               SetPhase(p, "running"), permission)

CommandPaneReRun == \E p \in 1..Len(panes) : PaneReRun(p)

EditPaneOpened ==
    /\ Serving
    /\ \E p \in 1..Len(panes) :
          /\ panes[p].kind = "edit" /\ panes[p].phase = "requested"
          /\ Handled(edit_pane_opened(St, p, panes[p].context),
                     SetPhase(p, "running"), permission)

\* the editor exits; its pane goes with it
EditorExited(p, read) ==
    /\ Serving
    /\ p \in 1..Len(panes)
    /\ panes[p].kind = "edit" /\ panes[p].phase = "running"
    /\ Handled(edit_pane_exited(St, p, panes[p].context, read),
               Remove(p), permission)

EditPaneExited ==
    \E p \in 1..Len(panes), read \in ReadResults : EditorExited(p, read)

\* the user closes a pane of the host
UserClosed(p, read) ==
    /\ Serving
    /\ p \in 1..Len(panes)
    /\ panes[p].phase \in {"running", "exited"}
    /\ Handled(handle_pane_closed(St, p, read), Remove(p), permission)

PaneClosed ==
    \E p \in 1..Len(panes) : \E read \in ReadsOnClose(p) : UserClosed(p, read)

PaneUpdate ==
    /\ Serving
    /\ \E manifest \in Manifests :
          Handled(log_pane_ids_as_needed(St, manifest), panes, permission)

\* set_timeout(1.0) again; nothing of State changes
Timer ==
    /\ ~closed
    /\ Handled(St, panes, permission)

KeyDown ==
    /\ Serving
    /\ Handled(move_selection_down(St), panes, permission)

KeyUp ==
    /\ Serving
    /\ Handled(move_selection_up(St), panes, permission)

KeyTab ==
    /\ Serving
    /\ Handled(focus_selected_terminal(St), panes, permission)

KeyEnter ==
    /\ Serving
    /\ Handled(restart_run(St), panes, permission)

KeySpace ==
    /\ Serving
    /\ Handled(toggle_paused(St), panes, permission)

KeyF ==
    /\ Serving
    /\ Handled(toggle_stop_on_failure(St), panes, permission)

KeyE ==
    /\ Serving
    /\ \E write_ok \in BOOLEAN :
          Handled(open_editor(St, write_ok), panes, permission)

Next ==
    \/ PermissionRequestResult
    \/ CommandPaneOpened
    \/ CommandPaneExited
    \/ CommandPaneReRun
    \/ EditPaneOpened
    \/ EditPaneExited
    \/ PaneClosed
    \/ PaneUpdate
    \/ Timer
    \/ KeyDown
    \/ KeyUp
    \/ KeyTab
    \/ KeyEnter
    \/ KeySpace
    \/ KeyF
    \/ KeyE

Spec == Init /\ [][Next]_vars

(* ------------------------ the undisturbed run --------------------------- *)
\* Scenario A: a non-empty command list, the permissions granted, no key
\* pressed and no pane closed or re-run by the user; every session the plugin
\* starts reports opened and then exited with code 0.  The host delivers the
\* events it owes, hence the weak fairness.
InitA ==
    /\ current_run_index = 0
    /\ \E n \in 1..ScenarioCommands : commands_to_run = ConfiguredCommands(n)
    /\ active_edit_pane_ids = <<>>
    /\ running_command_index = None
    /\ selected_index = None
    /\ paused = FALSE
    /\ stop_on_failure \in BOOLEAN
    /\ panes_to_run_on_completion = [title \in CompletionTitles |-> None]
    /\ panes = <<>>
    /\ artifact_exists = FALSE
    /\ permission = "requested"
    /\ closed = FALSE

GrantedA ==
    /\ ~closed /\ permission = "requested"
    /\ HandledWithin(permission_request_result(St, TRUE), panes, "granted",
                     ScenarioCommands)

OpenedA ==
    /\ Serving
    /\ \E p \in CommandPanes({"requested"}) :
          HandledWithin(handle_command_pane_opened(St, p, panes[p].context),
                        SetPhase(p, "running"), permission, ScenarioCommands)

ExitedA ==
    /\ Serving
    /\ \E p \in CommandPanes({"running"}) :
          HandledWithin(handle_command_pane_exited(St, Some(0), panes[p].context),
                        SetPhase(p, "exited"), permission, ScenarioCommands)

NextA == GrantedA \/ OpenedA \/ ExitedA

SpecA == InitA /\ [][NextA]_vars /\ WF_vars(NextA)

(* ------------------------ the run with pauses --------------------------- *)
\* Scenario A with a user who presses Space: every session still reports
\* opened and then exited with code 0, and the user may toggle pause at any
\* time.  The host delivers the events it owes; nothing obliges the user to
\* press a key.
SpaceP ==
    /\ Serving
    /\ HandledWithin(toggle_paused(St), panes, permission, ScenarioCommands)

NextP == GrantedA \/ OpenedA \/ ExitedA \/ SpaceP

SpecP == InitA /\ [][NextP]_vars /\ WF_vars(NextA)

(* --------------------------- Command::reset ---------------------------- *)
\* The values a Command can hold: every combination of its fields.
Records ==
    [ command_line : {ConfiguredLine(i) : i \in 1..MaxCommands},
      start_time : {None, Some(Instant)},
      end_time : {None, Some(Instant)},
      pane_id : {None} \cup {Some(p) : p \in 1..MaxPanes},
      exit_status : ExitCodes,
      exited : BOOLEAN,
      pane_closed_by_user : BOOLEAN ]

\* commands_to_run holds the record reset() is applied to, then the results
InitR ==
    /\ current_run_index = 0
    /\ \E command \in Records : commands_to_run = <<command>>
    /\ active_edit_pane_ids = <<>>
    /\ running_command_index = None
    /\ selected_index = None
    /\ paused = FALSE
    /\ stop_on_failure = FALSE
    /\ panes_to_run_on_completion = [title \in CompletionTitles |-> None]
    /\ panes = <<>>
    /\ artifact_exists = FALSE
    /\ permission = "requested"
    /\ closed = FALSE

\* reset() on the record
ResetR ==
    /\ Len(commands_to_run) = 1
    /\ commands_to_run' = Append(commands_to_run, reset(commands_to_run[1]))
    /\ UNCHANGED <<current_run_index, active_edit_pane_ids,
                   running_command_index, selected_index, paused,
                   stop_on_failure, panes_to_run_on_completion, panes,
                   artifact_exists, permission, closed>>

\* reset() on the record that was reset
ResetAgainR ==
    /\ Len(commands_to_run) = 2
    /\ commands_to_run' = Append(commands_to_run, reset(commands_to_run[2]))
    /\ UNCHANGED <<current_run_index, active_edit_pane_ids,
                   running_command_index, selected_index, paused,
                   stop_on_failure, panes_to_run_on_completion, panes,
                   artifact_exists, permission, closed>>

NextR == ResetR \/ ResetAgainR

SpecR == InitR /\ [][NextR]_vars

(* ------------------------------ properties ------------------------------ *)
Granted == permission = "granted"

\* the step handles a lifecycle event (opened, re-run or exited) of pane p
LifecycleStep(p) ==
    PaneOpened(p) \/ PaneReRun(p) \/ \E exit_code \in ExitCodes : PaneExited(p, exit_code)

\* pane p is a command pane whose events carry an earlier run's epoch
Stale(p) ==
    /\ panes[p].kind = "command" /\ panes[p].phase # "closed"
    /\ PaneRun(p) # current_run_index

\* the step makes the host open no pane, close no pane other than by the
\* event of pane p itself, and does not end the run
NoRequestBut(p) ==
    /\ Len(panes') = Len(panes)
    /\ \A q \in 1..Len(panes) : q # p => panes'[q] = panes[q]
    /\ closed' = closed

\* C1: a session-opened, session-rerun or session-exited event whose epoch
\* differs from current_run_index changes nothing of State and issues no
\* request: no start, no close, no run completion.
C1_StaleEventChangesNothing ==
    [][\A p \in 1..Len(panes) :
          (Stale(p) /\ LifecycleStep(p)) =>
              /\ UNCHANGED plugin_vars
              /\ NoRequestBut(p)
              /\ handle_command_pane_opened(St, p, panes[p].context).fx = <<>>
              /\ \A exit_code \in ExitCodes :
                    handle_command_pane_exited(St, exit_code, panes[p].context).fx
                        = <<>>]_vars

\* C1 witness: the only pane of run 1 was still unopened when run 2 began
\* (it would have been closed otherwise), and has since reported opened and
\* exited.
C1_Witness ==
    /\ Granted /\ current_run_index = 2 /\ Len(panes) = 2
    /\ panes[1].kind = "command" /\ panes[1].phase = "exited" /\ PaneRun(1) = 1
    /\ panes[2].kind = "command" /\ panes[2].phase # "closed" /\ PaneRun(2) = 2

\* C2: within one run the Sequencer moves from running index k to k + 1, and
\* asks for the session of k + 1, only once the exit of the command at k has
\* been recorded.
C2_NextStartsOnlyAfterExit ==
    [][(/\ IsSome(running_command_index)
        /\ current_run_index' = current_run_index
        /\ running_command_index' = Some(Unwrap(running_command_index) + 1))
       => commands_to_run'[Unwrap(running_command_index) + 1].exited]_vars

\* C3: the run is completed (close_self requested) only with every command's
\* exit_status equal to Some(0).
C3_CompletionOnlyWhenAllSucceeded ==
    closed => \A i \in 1..Len(commands_to_run) :
                 commands_to_run[i].exit_status = Some(0)

\* C3 witness: a run of several commands was completed.
C3_Witness == closed /\ Len(commands_to_run) >= 2

\* every pane the host was asked for so far: the p-th request was for the
\* command at index p - 1, in run 1
StartedInListOrder ==
    /\ Len(panes) <= Len(commands_to_run)
    /\ \A p \in 1..Len(panes) :
          panes[p].kind = "command"
          /\ (panes[p].phase # "closed" => PaneIndex(p) = p - 1 /\ PaneRun(p) = 1)

\* the run is over: every command exited with 0, nothing is running, every
\* command was started once and close_self was requested
RunCompleted ==
    /\ closed
    /\ running_command_index = None
    /\ Len(panes) = Len(commands_to_run)
    /\ \A i \in 1..Len(commands_to_run) :
          commands_to_run[i].exited /\ commands_to_run[i].exit_status = Some(0)

\* C4: in the undisturbed run of a non-empty list the commands are started
\* in list order, one session each, and the run ends completed: every record
\* exited with status 0, no running index, close_self requested (after which
\* the plugin handles no event, so the completion happens once).
C4_UndisturbedRunCompletes == []StartedInListOrder /\ <>[]RunCompleted

\* C4 witness: a list of three commands ran to completion.
C4_Witness == RunCompleted /\ Len(commands_to_run) = 3

\* the command at 0-based index i
Command(i) == commands_to_run[i + 1]

Indices == 0..(Len(commands_to_run) - 1)

Succeeded(command) == command.exited /\ command.exit_status = Some(0)

\* the host opens no command pane in this step: no start-session request
NoSessionStarted ==
    \A q \in (Len(panes) + 1)..Len(panes') : panes'[q].kind # "command"

\* Tab would start a session: a command is selected and has no pane
TabReruns ==
    /\ IsSome(get_focused_command(St))
    /\ Command(Unwrap(selected_index)).pane_id = None

\* the user has a command run out of sequence in this step: Tab on a command
\* without a pane, or the re-run of an exited pane
ManualRerunStep ==
    (KeyTab /\ TabReruns) \/ \E p \in 1..Len(panes) : PaneReRun(p)

\* no session of this run for index k or a later one is still to report:
\* neither the session the Sequencer started for k nor one of a manual rerun
NoRerunPending(k) ==
    \A p \in CommandPanes({"requested", "running"}) :
        PaneRun(p) = current_run_index => PaneIndex(p) < k

\* the Sequencer stands at index k, whose command has not succeeded, with
\* stop_on_failure on
HaltedAt(k) ==
    /\ stop_on_failure
    /\ running_command_index = Some(k)
    /\ k \in Indices /\ ~Succeeded(Command(k))

\* the step handles the exit of the running command k of this run with a
\* code other than 0
FailedExitOfRunning(k) ==
    \E p \in 1..Len(panes) :
        /\ panes[p].kind = "command" /\ panes[p].phase = "running"
        /\ PaneRun(p) = current_run_index /\ PaneIndex(p) = k
        /\ \E exit_code \in ExitCodes \ {Some(0)} : PaneExited(p, exit_code)

ExitOf(k, exit_code) ==
    \E p \in 1..Len(panes) :
        /\ panes[p].kind = "command" /\ panes[p].phase = "running"
        /\ PaneRun(p) = current_run_index /\ PaneIndex(p) = k
        /\ PaneExited(p, exit_code)

\* the host opens exactly one pane in this step, for the command at index k
\* in run `run`
OneSessionStarted(k, run) ==
    /\ Len(panes') = Len(panes) + 1
    /\ panes'[Len(panes')].kind = "command"
    /\ panes'[Len(panes')].context = CommandContext(k, run)

\* while paused, the exit of the running command k is recorded, starts
\* nothing and leaves the running index alone
PausedExitIsRecorded(k) ==
    \A exit_code \in ExitCodes :
        (paused /\ running_command_index = Some(k) /\ ExitOf(k, exit_code))
        => /\ Command(k).exited' /\ Command(k).exit_status' = exit_code
           /\ IsSome(Command(k).end_time')
           /\ running_command_index' = Some(k)
           /\ Len(panes') = Len(panes)
           /\ paused'

\* Space is pressed while paused, with the running command k exited and not
\* every command finished
ResumeAfterExit(k) ==
    /\ paused /\ running_command_index = Some(k) /\ k \in Indices
    /\ Command(k).exited
    /\ ~all_commands_exited(St)
    /\ KeySpace

ClosedByUser(k) ==
    \E p \in 1..Len(panes) :
        /\ Command(k).pane_id = Some(p)
        /\ FirstBound(commands_to_run, p) = k + 1
        /\ \E read \in ReadsOnClose(p) : UserClosed(p, read)

\* closing the pane of the running command k resets the record, marks it
\* closed by the user, and neither moves the running index nor starts a
\* session
CloseResetsRunning(k) ==
    (running_command_index = Some(k) /\ ClosedByUser(k))
    => /\ Command(k)' = [reset(Command(k)) EXCEPT !.pane_closed_by_user = TRUE]
       /\ running_command_index' = Some(k)
       /\ Len(panes') = Len(panes)

\* the Sequencer stands at index k, whose pane the user closed
StuckAt(k) ==
    /\ running_command_index = Some(k) /\ k \in Indices
    /\ Command(k).pane_closed_by_user /\ ~Command(k).exited

\* C7 as claimed: closing the pane of the running command resets it with
\* pane_closed_by_user and starts nothing; from then on the Sequencer stays
\* at that index and starts no session until the command is manually rerun
\* or the run is restarted or edited.
C7_ClosedCommandStaysStuck ==
    [][\A k \in Indices :
          /\ CloseResetsRunning(k)
          /\ (/\ StuckAt(k) /\ NoRerunPending(k)
              /\ current_run_index' = current_run_index
              /\ ~ManualRerunStep)
             => /\ running_command_index' = Some(k)
                /\ NoSessionStarted]_vars

\* the first half of C7 alone
C7_CloseResetsAndStartsNothing ==
    [][\A k \in Indices : CloseResetsRunning(k)]_vars

\* the step handles the closing of an editor pane (the editor exited, or the
\* user closed its pane) with `read` the result of reading the artifact
EditorClosedStep(read) ==
    \E p \in 1..Len(panes) :
        \/ EditorExited(p, read)
        \/ (Contains(active_edit_pane_ids, p) /\ UserClosed(p, read))

\* the step closes the pane of a running editor
EditorPaneCloses ==
    \E p \in 1..Len(panes) :
        /\ panes[p].kind = "edit" /\ panes[p].phase = "running"
        /\ panes'[p].phase = "closed"

\* in the state reached, the lifecycle events pane q can still send change
\* nothing
EventsOfPaneDiscarded(q) ==
    /\ handle_command_pane_opened(St, q, panes[q].context) = St
    /\ \A exit_code \in ExitCodes :
          handle_command_pane_exited(St, exit_code, panes[q].context) = St

\* C8: when the editor closes and the artifact is read, every pane bound to
\* a record of the old list is closed, the list becomes the artifact's
\* lines, all pending, the epoch grows by one, and the run starts again:
\* paused, nothing is started and the running index is None; not paused,
\* exactly one session is started, for index 0 of the new epoch, and the
\* running index is 0.  The sessions of the old list still alive then send
\* only events that are discarded.
C8_LiveEditRestartsRun ==
    [][\A a \in Artifacts :
          (EditorPaneCloses /\ EditorClosedStep(Ok(a))) =>
              /\ \A i \in Indices :
                    IsSome(Command(i).pane_id)
                        => panes'[Unwrap(Command(i).pane_id)].phase = "closed"
              /\ commands_to_run' = ParseCommands(a)
              /\ \A i \in 1..Len(commands_to_run') :
                    commands_to_run'[i]
                        = NewCommand(commands_to_run'[i].command_line)
              /\ current_run_index' = current_run_index + 1
              /\ IF paused
                 THEN running_command_index' = None /\ NoSessionStarted
                 ELSE /\ Len(commands_to_run') > 0
                      /\ running_command_index' = Some(0)
                      /\ OneSessionStarted(0, current_run_index + 1)
              /\ \A q \in 1..Len(panes) :
                    (panes'[q].kind = "command" /\ panes'[q].phase # "closed")
                        => EventsOfPaneDiscarded(q)']_vars

\* C8 witness: the configured list was edited mid-run, after its running
\* command's pane had opened: that pane and the editor's are closed, the
\* new list's first command is being started under epoch 2.
C8_Witness ==
    /\ Granted /\ current_run_index = 2 /\ Len(panes) = 3
    /\ panes[1].kind = "command" /\ panes[1].phase = "closed"
    /\ panes[2].kind = "edit" /\ panes[2].phase = "closed"
    /\ panes[3].kind = "command" /\ panes[3].phase = "requested"
    /\ panes[3].context = CommandContext(0, 2)
    /\ running_command_index = Some(0)
    /\ Len(commands_to_run) = 2
    /\ \A i \in 1..2 : commands_to_run[i] = NewCommand(<<"a">>)

\* the session requests a handler's result carries
StartRequests(s) == Requests(s.fx, "open_command_pane_floating")

\* C9: Enter, in any state, closes every pane bound to a record, resets
\* every record to pending with the command lines and their order kept,
\* and moves the epoch up by one; then, paused, nothing is started and the
\* running index is None; not paused and the list non-empty, exactly one
\* session is requested, for index 0 under the new epoch, and the running
\* index is 0.
C9_RestartResetsAndAdvances ==
    [][KeyEnter =>
          /\ \A i \in Indices :
                IsSome(Command(i).pane_id)
                    => panes'[Unwrap(Command(i).pane_id)].phase = "closed"
          /\ Len(commands_to_run') = Len(commands_to_run)
          /\ \A i \in 1..Len(commands_to_run) :
                commands_to_run'[i] = NewCommand(commands_to_run[i].command_line)
          /\ current_run_index' = current_run_index + 1
          /\ paused
                => /\ running_command_index' = None
                   /\ StartRequests(restart_run(St)) = <<>>
                   /\ NoSessionStarted
          /\ (~paused /\ Len(commands_to_run) > 0)
                => /\ running_command_index' = Some(0)
                   /\ StartRequests(restart_run(St))
                        = << <<"open_command_pane_floating",
                               CommandContext(0, current_run_index + 1),
                               Command(0).command_line>> >>
                   /\ Granted => OneSessionStarted(0, current_run_index + 1)]_vars

\* C9 witness: the configured run was restarted after its first command's
\* pane had opened: that pane is closed, both records are pending again and
\* the first command is being started under epoch 2.
C9_Witness ==
    /\ Granted /\ current_run_index = 2 /\ Len(panes) = 2
    /\ panes[1].kind = "command" /\ panes[1].phase = "closed"
    /\ panes[2].kind = "command" /\ panes[2].phase = "requested"
    /\ panes[2].context = CommandContext(0, 2)
    /\ running_command_index = Some(0)
    /\ commands_to_run = ConfiguredCommands(2)

\* C10: when the editor closes and the artifact cannot be read, the list
\* and its records, the running index, the epoch, the two flags and the
\* selection stay as they are, no pane but the editor's changes and none is
\* requested.
C10_FailedReadChangesNothing ==
    [][(EditorPaneCloses /\ EditorClosedStep(Err)) =>
          /\ UNCHANGED <<commands_to_run, running_command_index,
                         current_run_index, paused, stop_on_failure,
                         selected_index, closed>>
          /\ Len(panes') = Len(panes)
          /\ \A q \in 1..Len(panes) :
                panes'[q] # panes[q] => panes[q].kind = "edit"]_vars

\* C10 witness: mid-run the editor was opened and closed, and the artifact
\* could not be read: the run goes on under epoch 1 with the configured
\* list, its first command still running in its pane.
C10_Witness ==
    /\ Granted /\ current_run_index = 1 /\ Len(panes) = 2
    /\ panes[1].kind = "command" /\ panes[1].phase = "running"
    /\ panes[2].kind = "edit" /\ panes[2].phase = "closed"
    /\ active_edit_pane_ids = <<>>
    /\ running_command_index = Some(0)
    /\ commands_to_run[1].pane_id = Some(1)
    /\ Len(commands_to_run) = 2
    /\ \A i \in 1..2 : commands_to_run[i].command_line = ConfiguredLine(i)

\* what update can return in this state: the result of every handler on
\* every event the host can send now
Outcomes ==
    {permission_request_result(St, granted) : granted \in BOOLEAN}
    \cup {handle_command_pane_opened(St, p, panes[p].context) :
            p \in CommandPanes({"requested", "exited"})}
    \cup {handle_command_pane_exited(St, exit_code, panes[p].context) :
            p \in CommandPanes({"running"}), exit_code \in ExitCodes}
    \cup UNION {{edit_pane_exited(St, p, panes[p].context, read),
                 handle_pane_closed(St, p, read)} :
                  p \in {q \in 1..Len(panes) : panes[q].phase \in {"running", "exited"}},
                  read \in ReadResults}
    \cup {open_editor(St, write_ok) : write_ok \in BOOLEAN}
    \cup {move_selection_down(St), move_selection_up(St),
          focus_selected_terminal(St), restart_run(St),
          toggle_paused(St), toggle_stop_on_failure(St)}

\* every session request of s carries the epoch s ends with and the index
\* of the record whose command line it launches
WellStamped(s) ==
    \A n \in 1..Len(s.fx) :
        IsRequest(s.fx[n], "open_command_pane_floating")
        => \E i \in 1..Len(s.commands_to_run) :
              /\ s.fx[n][2] = CommandContext(i - 1, s.current_run_index)
              /\ s.fx[n][3] = s.commands_to_run[i].command_line

\* the command panes whose events the host may still send
LivePanes == CommandPanes({"requested", "running", "exited"})

\* C11: every session request, of the Sequencer or of a manual rerun,
\* carries the epoch in force when it is issued and the index of the record
\* whose command line it launches; a handler never lowers the epoch and no
\* session alive carries a later epoch than the current one, so the requests
\* of a new run carry an epoch that no earlier run used.
C11_RequestsCarryEpochAndIndex ==
    /\ \A s \in Outcomes :
          /\ WellStamped(s)
          /\ s.current_run_index >= current_run_index
          /\ s.current_run_index # current_run_index
                => \A q \in LivePanes : PaneRun(q) < s.current_run_index
    /\ \A q \in LivePanes :
          /\ panes[q].context = CommandContext(PaneIndex(q), PaneRun(q))
          /\ PaneRun(q) <= current_run_index

\* C11 witness: a session of epoch 1 that has not opened yet and, after a
\* restart, the session of the same command under epoch 2.
C11_Witness ==
    /\ Granted /\ current_run_index = 2 /\ Len(panes) = 2
    /\ panes[1].phase = "requested" /\ panes[1].context = CommandContext(0, 1)
    /\ panes[2].phase = "requested" /\ panes[2].context = CommandContext(0, 2)
    /\ running_command_index = Some(0)

\* a command is selected: the selection is an index of the list
CommandSelected ==
    IsSome(selected_index) /\ Unwrap(selected_index) < Len(commands_to_run)

\* what Tab returns in this state: nothing but the selected record changes,
\* and the requests are the focus of its pane or the start of its session
TabResult ==
    LET s == focus_selected_terminal(St)
        k == Unwrap(selected_index)
    IN  /\ s.running_command_index = running_command_index
        /\ s.current_run_index = current_run_index
        /\ s.paused = paused /\ s.stop_on_failure = stop_on_failure
        /\ s.selected_index = selected_index
        /\ s.active_edit_pane_ids = active_edit_pane_ids
        /\ s.panes_to_run_on_completion = panes_to_run_on_completion
        /\ Len(s.commands_to_run) = Len(commands_to_run)
        /\ IF ~CommandSelected
           THEN s.commands_to_run = commands_to_run /\ s.fx = <<>>
           ELSE /\ \A i \in Indices \ {k} :
                      s.commands_to_run[i + 1] = Command(i)
                /\ IF IsSome(Command(k).pane_id)
                   THEN /\ s.commands_to_run = commands_to_run
                        /\ s.fx = << <<"focus_terminal_pane",
                                       Unwrap(Command(k).pane_id)>> >>
                   ELSE /\ s.commands_to_run[k + 1]
                              = NewCommand(Command(k).command_line)
                        /\ s.fx = << <<"open_command_pane_floating",
                                       CommandContext(k, current_run_index),
                                       Command(k).command_line>> >>

\* C12: Tab leaves the running index, the epoch, the flags, the selection
\* and every record but the selected one alone.  With the selected record
\* bound to a pane it only asks to focus that pane; otherwise it resets the
\* selected record and requests exactly one session, stamped with the
\* selected index and the current epoch, which the host then starts.  With
\* no command selected it changes nothing.
C12_TabRerunsOnlySelected ==
    /\ []TabResult
    /\ [][KeyTab =>
            /\ UNCHANGED <<running_command_index, current_run_index, paused,
                           stop_on_failure, selected_index, closed>>
            /\ CommandSelected /\ Command(Unwrap(selected_index)).pane_id = None
            /\ OneSessionStarted(Unwrap(selected_index), current_run_index)
            /\ \A q \in 1..Len(panes) : panes'[q] = panes[q]]_vars

\* C12 witness: the first command ran, the Sequencer went on to the second,
\* the user closed the first one's pane and reran it with Tab: its record is
\* pending again, its new session is requested, the running index is still 1.
C12_Witness ==
    /\ Granted /\ current_run_index = 1 /\ Len(panes) = 3
    /\ running_command_index = Some(1)
    /\ selected_index = Some(0)
    /\ commands_to_run[1] = NewCommand(ConfiguredLine(1))
    /\ panes[1].phase = "closed"
    /\ panes[3].phase = "requested" /\ panes[3].context = CommandContext(0, 1)

\* C13: no record is both exited and closed by the user.
C13_OneTerminalCause ==
    \A i \in Indices :
        ~(Command(i).exited /\ Command(i).pane_closed_by_user)

\* the selection Down must lead to from `selected` over n commands
DownFrom(selected, n) ==
    IF selected = None THEN (IF n > 0 THEN Some(0) ELSE None)
    ELSE IF Unwrap(selected) < n - 1 THEN Some(Unwrap(selected) + 1)
    ELSE None

\* the selection Up must lead to from `selected` over n commands
UpFrom(selected, n) ==
    IF selected = None THEN (IF n > 0 THEN Some(n - 1) ELSE None)
    ELSE IF Unwrap(selected) > 0 THEN Some(Unwrap(selected) - 1)
    ELSE None

\* the selection is none or an index of the list
SelectionInList ==
    selected_index = None \/ Unwrap(selected_index) < Len(commands_to_run)

\* C14: over n commands Down goes none -> 0, i -> i+1 and n-1 -> none, Up
\* goes none -> n-1, i -> i-1 and 0 -> none, both stay at none on the empty
\* list; neither key changes anything but the selection nor issues a request.
C14_SelectionMoves ==
    /\ [](/\ SelectionInList =>
               /\ move_selection_down(St).selected_index
                     = DownFrom(selected_index, Len(commands_to_run))
               /\ move_selection_up(St).selected_index
                     = UpFrom(selected_index, Len(commands_to_run))
          /\ [move_selection_down(St) EXCEPT !.selected_index = selected_index] = St
          /\ [move_selection_up(St) EXCEPT !.selected_index = selected_index] = St)
    /\ [][(KeyDown \/ KeyUp) =>
            UNCHANGED <<current_run_index, commands_to_run, active_edit_pane_ids,
                        running_command_index, paused, stop_on_failure,
                        panes_to_run_on_completion, panes, artifact_exists,
                        permission, closed>>]_vars

\* C14 witness: the run is in its first epoch with two commands and the
\* selection has been moved onto the last one.
C14_Witness ==
    /\ Granted /\ current_run_index = 1
    /\ Len(commands_to_run) = 2 /\ selected_index = Some(1)
    /\ running_command_index = Some(0)

\* C15: reset() of a record in any state gives the record with the same
\* command_line, no start_time, end_time, pane_id or exit_status, and both
\* flags false; reset() of that result gives the same record again.
C15_ResetClearsAllButLine ==
    /\ Len(commands_to_run) >= 2
          => /\ commands_to_run[2].command_line = commands_to_run[1].command_line
             /\ commands_to_run[2].start_time = None
             /\ commands_to_run[2].end_time = None
             /\ commands_to_run[2].pane_id = None
             /\ commands_to_run[2].exit_status = None
             /\ ~commands_to_run[2].exited
             /\ ~commands_to_run[2].pane_closed_by_user
    /\ Len(commands_to_run) >= 3 => commands_to_run[3] = commands_to_run[2]

\* C15 witness: a record with every field set was reset twice.
C15_Witness ==
    /\ Len(commands_to_run) = 3
    /\ IsSome(commands_to_run[1].start_time)
    /\ IsSome(commands_to_run[1].end_time)
    /\ IsSome(commands_to_run[1].pane_id)
    /\ commands_to_run[1].exit_status = Some(1)
    /\ commands_to_run[1].exited
    /\ commands_to_run[1].pane_closed_by_user

\* the exit of pane p with exit_code makes the Sequencer enter the
\* failure-triage view: it is the running command's exit in this epoch, the
\* plugin is not paused, and either stop_on_failure halts on it or it is the
\* last command and not every command has succeeded
EntersTriage(p, exit_code) ==
    LET s == handle_command_pane_exited(St, exit_code, panes[p].context)
    IN  /\ PaneRun(p) = current_run_index
        /\ running_command_index = Some(PaneIndex(p))
        /\ ~paused
        /\ \/ stop_on_failure /\ exit_code # Some(0)
           \/ /\ PaneIndex(p) + 1 = Len(commands_to_run)
              /\ \E i \in 1..Len(s.commands_to_run) :
                    ~Succeeded(s.commands_to_run[i])

\* C16: when the failure-triage view is entered, every command bound to a
\* pane that is not (exited with status 0) gets a show request and every
\* bound command that succeeded gets a hide request.
C16_TriageShowsEveryFailure ==
    \A p \in CommandPanes({"running"}), exit_code \in ExitCodes :
        EntersTriage(p, exit_code) =>
            LET s == handle_command_pane_exited(St, exit_code, panes[p].context)
            IN  \A i \in 1..Len(s.commands_to_run) :
                    IsSome(s.commands_to_run[i].pane_id) =>
                        LET pane == Unwrap(s.commands_to_run[i].pane_id)
                        IN  IF Succeeded(s.commands_to_run[i])
                            THEN \E n \in 1..Len(s.fx) :
                                    s.fx[n] = <<"hide_pane_with_id", pane>>
                            ELSE \E n \in 1..Len(s.fx) :
                                    s.fx[n] = <<"show_pane_with_id", pane>>

\* the non-empty lines of an artifact, in order
NonEmptyLines(artifact) ==
    SelectSeq(split_lines(artifact, <<>>),
              LAMBDA line : \E n \in 1..Len(line) : ~IsWhitespace(line[n]))

\* C17: after a live edit that read the artifact, the list holds one record
\* per non-empty line of the artifact, in line order, and so no record with
\* an empty command_line.
C17_OneRecordPerNonEmptyLine ==
    [][\A a \in Artifacts :
          (EditorPaneCloses /\ EditorClosedStep(Ok(a))) =>
              /\ Len(commands_to_run') = Len(NonEmptyLines(a))
              /\ \A i \in 1..Len(commands_to_run') :
                    /\ commands_to_run'[i].command_line = NonEmptyLines(a)[i]
                    /\ commands_to_run'[i].command_line # <<>>]_vars

\* the step handles the exit, with exit_code, of a session of this epoch
\* for command k, which is not the running one
OutOfSequenceExit(p, k, exit_code) ==
    /\ panes'[p].phase = "exited"
    /\ PaneRun(p) = current_run_index
    /\ PaneIndex(p) = k
    /\ running_command_index # Some(k)
    /\ PaneExited(p, exit_code)

TurningOnOnlyFlips ==
    (KeyF /\ ~stop_on_failure) =>
        /\ stop_on_failure'
        /\ UNCHANGED <<current_run_index, commands_to_run, active_edit_pane_ids,
                       running_command_index, selected_index, paused,
                       panes_to_run_on_completion, panes, artifact_exists,
                       permission, closed>>
        /\ toggle_stop_on_failure(St).fx = <<>>

\* the Sequencer is halted at the failed command k, stop_on_failure is on
\* and the plugin is not paused
HaltedOnFailure(k) ==
    /\ stop_on_failure /\ ~paused
    /\ running_command_index = Some(k)
    /\ Command(k).exited /\ Command(k).exit_status # Some(0)

\* 'f' makes the Sequencer go on from k to k + 1
ResumesAfter(k) ==
    /\ ~stop_on_failure'
    /\ running_command_index' = Some(k + 1)
    /\ OneSessionStarted(k + 1, current_run_index)
    /\ StartRequests(toggle_stop_on_failure(St))
          = << <<"open_command_pane_floating",
                 CommandContext(k + 1, current_run_index),
                 Command(k + 1).command_line>> >>

SequencerStarts(i) ==
    /\ Granted
    /\ current_run_index' = current_run_index
    /\ running_command_index # Some(i)
    /\ running_command_index' = Some(i)
    /\ OneSessionStarted(i, current_run_index)

\* the epoch is the one the permission grant began: the grant started the
\* first command of the configured list
FirstCommandStarted == current_run_index = 1 /\ Len(commands_to_run) > 0

\* C20: within an epoch the Sequencer starts strictly increasing indices:
\* a start goes beyond the running index, and in the epoch begun by the
\* permission grant, whose first command was started then, the Sequencer
\* never starts index 0 again.
C20_SequencerNeverGoesBack ==
    [][\A i \in Indices :
          SequencerStarts(i) =>
              /\ IsSome(running_command_index) => i > Unwrap(running_command_index)
              /\ FirstCommandStarted => i > 0]_vars

\* every session the plugin started has reported its exit
EverySessionExited == CommandPanes({"requested", "running"}) = {}

\* C21: pausing does not lose the completion of the run.  When every
\* command has exited with code 0, all sessions have reported their exit
\* and the plugin is paused, nothing but the user's unpausing is left to
\* happen: that step triggers the completion of the run.
C21_UnpausingCompletesRun ==
    [][(/\ paused /\ ~paused'
        /\ EverySessionExited
        /\ \A i \in Indices : Succeeded(Command(i)))
       => closed']_vars

\* the record is in the running state: started and not ended
InRunningState(command) ==
    IsSome(command.start_time) /\ command.end_time = None

\* C22: the run is never completed while a record is in the running state.
C22_NoCompletionWhileRunning ==
    closed => \A i \in Indices : ~InRunningState(Command(i))

\* C23: a run that was superseded leaves no session behind: a session of
\* an earlier epoch is closed at the restart or live edit, or at the latest
\* when its opened event is handled and discarded, so that no session that
\* runs or has exited in a pane still open carries an earlier epoch.
C23_NoSessionOfEarlierRunSurvives ==
    \A q \in CommandPanes({"running", "exited"}) :
        PaneRun(q) = current_run_index

\* C24: the selection is always none or an index of the current list.
C24_SelectionStaysInList ==
    IsSome(selected_index) => Unwrap(selected_index) < Len(commands_to_run)

\* C25: a record with an exit status has exited, so every record counts as
\* exactly one of successful, failed and pending, and the three counts of
\* the run summary add up to the length of the list.
C25_CountsPartitionTheList ==
    /\ \A i \in Indices : IsSome(Command(i).exit_status) => Command(i).exited
    /\ \A i \in Indices :
          Cardinality({kind \in {"successful", "failed", "pending"} :
              \/ kind = "successful" /\ Command(i).exit_status = Some(0)
              \/ kind = "failed" /\ Command(i).exited
                                 /\ Command(i).exit_status # Some(0)
              \/ kind = "pending" /\ ~Command(i).exited}) = 1
    /\ successful_command_count(St) + failed_command_count(St)
          + pending_command_count(St) = Len(commands_to_run)

\* C25 witness: of two commands the first succeeded and the second exited
\* without an exit code, which counts as failed; none is pending.
C25_Witness ==
    /\ Granted /\ Len(commands_to_run) = 2
    /\ successful_command_count(St) = 1
    /\ failed_command_count(St) = 1
    /\ pending_command_count(St) = 0
    /\ commands_to_run[2].exited /\ commands_to_run[2].exit_status = None

====
